---- MODULE Spec2Model ----
(***************************************************************************)
(* easy_signals (src/src/lib.rs): a subject holding an ordered list of     *)
(* observers, snapshots of that list paired with an event, and a FIFO      *)
(* queue of snapshots pumped by the host.                                  *)
(*                                                                         *)
(* The host is the single thread of control of the crate's tests: it owns  *)
(* one subject, one local variable that can hold a snapshot, and one       *)
(* queue.  The observers are the ones of the tests: process_signal prints  *)
(* a line and touches nothing else, so a delivery is an entry of `log`.    *)
(***************************************************************************)
EXTENDS Integers, Sequences, FiniteSets, TLC

NumObservers == 2   \* observer identities (Rc pointers) the host creates
NumEvents    == 2   \* event identities the host creates
MaxTargets   == 2   \* longest `targets` vector the host passes
MaxQueue     == 2   \* most snapshots the host lets wait in the queue; it builds one only when there is room
MaxPush      == 3   \* pushes the host performs in one run
MaxNested    == 1   \* calls an observer makes from inside one process_signal
MaxOwnTargets == 1  \* longest `targets` vector of a snapshot the host then subscribes on
MaxOwnPush   == 1   \* pushes the host performs in a run in which it subscribes on snapshots
NumShared    == 1   \* observers the host also subscribes to the second subject

Observers == 1..NumObservers
Events    == 1..NumEvents

None == [none |-> TRUE]

\* Every vector of at most n entries over S.
SeqsUpTo(S, n) == UNION {[1..k -> S] : k \in 0..n}

TargetLists == SeqsUpTo(Observers, MaxTargets)

VARIABLES
    subs,          \* Subject.subs: the subject's observer vector
    signal_queue,  \* SignalQueue.signal_queue: VecDeque of snapshots
    held,          \* the host's local: None or the snapshot it owns
    ret,           \* what the last operation returned: None or a snapshot
    log,           \* the process_signal calls made by the last operation, in order
    last,          \* the last operation and its arguments
    prev,          \* history: the subject's vector before the last operation
    pushCount,     \* history: number of push calls so far
    ords,          \* history: the push ordinals of the queued snapshots, queued and
                   \* dequeued by the same push and pop as the snapshots
    executed,      \* history: push ordinals of the snapshots next_signal executed
    other,         \* a second Subject's subs, sharing the observers of the first
    stack,         \* the calls in progress, outermost first: passes and process_signal calls
    busy,          \* the observers whose RefCell is mutably borrowed
    readers,       \* the shared borrows of the subject's RefCell
    qbusy,         \* the queue's RefCell is mutably borrowed
    failed         \* "" or the panic that ended the run

\* What the host's calls with inert observers leave alone.
extra == <<other, stack, busy, readers, qbusy, failed>>

vars == <<subs, signal_queue, held, ret, log, last, prev, pushCount, ords, executed, extra>>

Elems(list) == {list[i] : i \in DOMAIN list}

Reverse(list) == [i \in 1..Len(list) |-> list[Len(list) + 1 - i]]

----------------------------------------------------------------------------
(* The code, as operators on values.  A definition directly above one of   *)
(* them, marked "variant", is that operator with a slip in it; the         *)
(* properties below are required to tell the two apart.                    *)

\* SignalObserver::process_signal of the test observers: one line of output.
process_signal(out, o, e) == Append(out, [observer |-> o, event |-> e])

\* for o in <iterator> { o.borrow_mut().process_signal(event.clone()); }
RECURSIVE for_each_observer(_, _, _)
for_each_observer(list, e, out) ==
    IF list = <<>> THEN out
    ELSE for_each_observer(Tail(list), e, process_signal(out, Head(list), e))

\* get_observers_iter: the iterator yields the field's entries front to back.
get_observers_iter(list) == list

\* copy_observers: push a clone of every entry onto a new vector.
RECURSIVE copy_loop(_, _)
copy_loop(rest, copy) ==
    IF rest = <<>> THEN copy
    ELSE copy_loop(Tail(rest), Append(copy, Head(rest)))

copy_observers(list) == copy_loop(get_observers_iter(list), <<>>)

\* subscribe_observer: retain(|x| !Rc::ptr_eq(x, &new_observer)); push(new_observer)
retain_not(list, o) == SelectSeq(list, LAMBDA x : x # o)

\* variant: the retain is missing
subscribe_push_only(list, o) == Append(list, o)

\* variant: only the first entry equal to the observer is removed
subscribe_remove_first(list, o) ==
    IF o \in Elems(list)
    THEN LET k == CHOOSE i \in DOMAIN list :
                      list[i] = o /\ \A j \in 1..(i - 1) : list[j] # o
         IN Append(SubSeq(list, 1, k - 1) \o SubSeq(list, k + 1, Len(list)), o)
    ELSE Append(list, o)

\* variant: an observer already present is left where it is
subscribe_if_absent(list, o) == IF o \in Elems(list) THEN list ELSE Append(list, o)

subscribe_observer(list, o) == Append(retain_not(list, o), o)

\* variant: the pass runs back to front
send_signal_rev(list, e, out) == for_each_observer(Reverse(get_observers_iter(list)), e, out)

\* send_signal: one pass over the list.
send_signal(list, e, out) == for_each_observer(get_observers_iter(list), e, out)

\* variant: a target that is already subscribed is skipped
send_signal_to_dedup(list, e, targets, out) ==
    for_each_observer(SelectSeq(targets, LAMBDA x : x \notin Elems(list)), e,
        for_each_observer(get_observers_iter(list), e, out))

\* send_signal_to: one pass over the list, then one pass over targets.
send_signal_to(list, e, targets, out) ==
    for_each_observer(targets, e,
        for_each_observer(get_observers_iter(list), e, out))

\* get_signal_snapshot: SignalSnapShot { event, subs: self.copy_observers() }
get_signal_snapshot(list, e) == [event |-> e, subs |-> copy_observers(list)]

\* variant: a target that is already subscribed is not appended
get_signal_to_snapshot_dedup(list, e, targets) ==
    [event |-> e,
     subs |-> copy_observers(list) \o SelectSeq(targets, LAMBDA x : x \notin Elems(list))]

\* get_signal_to_snapshot: copy_observers, then append a clone of targets.
get_signal_to_snapshot(list, e, targets) ==
    [event |-> e, subs |-> copy_observers(list) \o targets]

\* variant: the snapshot dispatches to the subject's present vector
execute_live(s, out) == send_signal(subs, s.event, out)

\* SignalSnapShot::execute: self.send_signal(self.event.clone())
execute(s, out) == send_signal(s.subs, s.event, out)

\* variant: push_front
push_front(q, s) == <<s>> \o q

\* SignalQueue::push: signal_queue.borrow_mut().push_back(signal)
push(q, s) == Append(q, s)

\* SignalQueue::is_empty: signal_queue.borrow().is_empty()
is_empty(q) == q = <<>>

\* variant: the front is read but stays queued
pop_peek(q) == IF q = <<>> THEN [value |-> None, rest |-> q]
               ELSE [value |-> Head(q), rest |-> q]

\* variant: pop_back
pop_back(q) == IF q = <<>> THEN [value |-> None, rest |-> q]
               ELSE [value |-> q[Len(q)], rest |-> SubSeq(q, 1, Len(q) - 1)]

\* SignalQueue::pop: signal_queue.borrow_mut().pop_front()
pop(q) == IF q = <<>> THEN [value |-> None, rest |-> q]
          ELSE [value |-> Head(q), rest |-> Tail(q)]

----------------------------------------------------------------------------
(* History kept with a snapshot: `cap` is the list it was built from, the  *)
(* subject's vector at that moment followed by the targets.                *)

Tracked(s, cap) == [event |-> s.event, subs |-> s.subs, cap |-> cap]

Op(name, o, e, t) == [op |-> name, observer |-> o, event |-> e, targets |-> t]

Init ==
    /\ subs = <<>>
    /\ signal_queue = <<>>
    /\ held = None
    /\ ret = None
    /\ log = <<>>
    /\ last = Op("new", 0, 0, <<>>)
    /\ prev = <<>>
    /\ pushCount = 0
    /\ ords = <<>>
    /\ executed = <<>>
    /\ other = <<>>
    /\ stack = <<>>
    /\ busy = {}
    /\ readers = 0
    /\ qbusy = FALSE
    /\ failed = ""

\* subject.borrow_mut().subscribe_observer(o)
SubscribeObserver(o) ==
    /\ subs' = subscribe_observer(subs, o)
    /\ log' = <<>>
    /\ ret' = None
    /\ last' = Op("subscribe_observer", o, 0, <<>>)
    /\ prev' = subs
    /\ UNCHANGED extra
    /\ UNCHANGED <<signal_queue, held, pushCount, ords, executed>>

\* subject.borrow().send_signal(e)
SendSignal(e) ==
    /\ log' = send_signal(subs, e, <<>>)
    /\ ret' = None
    /\ last' = Op("send_signal", 0, e, <<>>)
    /\ prev' = subs
    /\ UNCHANGED extra
    /\ UNCHANGED <<subs, signal_queue, held, pushCount, ords, executed>>

\* subject.borrow().send_signal_to(e, &targets)
SendSignalTo(e, t) ==
    /\ log' = send_signal_to(subs, e, t, <<>>)
    /\ ret' = None
    /\ last' = Op("send_signal_to", 0, e, t)
    /\ prev' = subs
    /\ UNCHANGED extra
    /\ UNCHANGED <<subs, signal_queue, held, pushCount, ords, executed>>

\* held = subject.borrow().get_signal_snapshot(e)
GetSignalSnapshot(e) ==
    /\ Len(signal_queue) < MaxQueue
    /\ held' = Tracked(get_signal_snapshot(subs, e), subs)
    /\ ret' = held'
    /\ log' = <<>>
    /\ last' = Op("get_signal_snapshot", 0, e, <<>>)
    /\ prev' = subs
    /\ UNCHANGED extra
    /\ UNCHANGED <<subs, signal_queue, pushCount, ords, executed>>

\* held = subject.borrow().get_signal_to_snapshot(e, &targets)
GetSignalToSnapshot(e, t) ==
    /\ Len(signal_queue) < MaxQueue
    /\ held' = Tracked(get_signal_to_snapshot(subs, e, t), subs \o t)
    /\ ret' = held'
    /\ log' = <<>>
    /\ last' = Op("get_signal_to_snapshot", 0, e, t)
    /\ prev' = subs
    /\ UNCHANGED extra
    /\ UNCHANGED <<subs, signal_queue, pushCount, ords, executed>>

\* variant: execute takes the observers out of the snapshot as it passes over them
ExecuteDrain ==
    /\ held # None
    /\ log' = execute(held, <<>>)
    /\ held' = [held EXCEPT !.subs = <<>>]
    /\ ret' = None
    /\ last' = Op("execute", 0, 0, <<>>)
    /\ prev' = subs
    /\ UNCHANGED extra
    /\ UNCHANGED <<subs, signal_queue, pushCount, ords, executed>>

\* held.execute()
Execute ==
    /\ held # None
    /\ log' = execute(held, <<>>)
    /\ ret' = None
    /\ last' = Op("execute", 0, 0, <<>>)
    /\ prev' = subs
    /\ UNCHANGED extra
    /\ UNCHANGED <<subs, signal_queue, held, pushCount, ords, executed>>

\* variant: the queue executes a snapshot as it is pushed
PushEager ==
    /\ held # None
    /\ Len(signal_queue) < MaxQueue
    /\ pushCount < MaxPush
    /\ pushCount' = pushCount + 1
    /\ signal_queue' = push(signal_queue, held)
    /\ ords' = push(ords, pushCount + 1)
    /\ held' = None
    /\ ret' = None
    /\ log' = execute(held, <<>>)
    /\ last' = Op("push", 0, 0, <<>>)
    /\ prev' = subs
    /\ UNCHANGED extra
    /\ UNCHANGED <<subs, executed>>

\* queue.push(held): the snapshot moves into the queue
Push ==
    /\ held # None
    /\ Len(signal_queue) < MaxQueue
    /\ pushCount < MaxPush
    /\ pushCount' = pushCount + 1
    /\ signal_queue' = push(signal_queue, held)
    /\ ords' = push(ords, pushCount + 1)
    /\ held' = None
    /\ ret' = None
    /\ log' = <<>>
    /\ last' = Op("push", 0, 0, <<>>)
    /\ prev' = subs
    /\ UNCHANGED extra
    /\ UNCHANGED <<subs, executed>>

\* variant: the condition is inverted, the queue is popped only when is_empty
NextSignalWhenEmpty ==
    LET p == IF is_empty(signal_queue) THEN pop(signal_queue)
             ELSE [value |-> None, rest |-> signal_queue]
        n == pop(ords)
    IN
    /\ signal_queue' = p.rest
    /\ IF p.value # None
       THEN /\ log' = execute(p.value, <<>>)
            /\ ret' = p.value
            /\ held' = p.value
            /\ ords' = n.rest
            /\ executed' = Append(executed, n.value)
       ELSE /\ log' = <<>>
            /\ ret' = None
            /\ UNCHANGED <<held, ords, executed>>
    /\ last' = Op("next_signal", 0, 0, <<>>)
    /\ prev' = subs
    /\ UNCHANGED extra
    /\ UNCHANGED <<subs, pushCount>>

\* variant: next_signal unwraps the popped value, so it fails on an empty queue
NextSignalUnwrap ==
    LET p == pop(signal_queue)
        n == pop(ords)
    IN
    /\ p.value # None
    /\ signal_queue' = p.rest
    /\ log' = execute(p.value, <<>>)
    /\ ret' = p.value
    /\ held' = p.value
    /\ ords' = n.rest
    /\ executed' = Append(executed, n.value)
    /\ last' = Op("next_signal", 0, 0, <<>>)
    /\ prev' = subs
    /\ UNCHANGED extra
    /\ UNCHANGED <<subs, pushCount>>

\* if let Some(s) = queue.next_signal() { held = s }
NextSignal ==
    LET p == pop(signal_queue)
        n == pop(ords)
    IN
    /\ signal_queue' = p.rest
    /\ IF p.value # None
       THEN /\ log' = execute(p.value, <<>>)
            /\ ret' = p.value
            /\ held' = p.value
            /\ ords' = n.rest
            /\ executed' = Append(executed, n.value)
       ELSE /\ log' = <<>>
            /\ ret' = None
            /\ UNCHANGED <<held, ords, executed>>
    /\ last' = Op("next_signal", 0, 0, <<>>)
    /\ prev' = subs
    /\ UNCHANGED extra
    /\ UNCHANGED <<subs, pushCount>>

Next ==
    \/ \E o \in Observers : SubscribeObserver(o)
    \/ \E e \in Events : SendSignal(e)
    \/ \E e \in Events, t \in TargetLists : SendSignalTo(e, t)
    \/ \E e \in Events : GetSignalSnapshot(e)
    \/ \E e \in Events, t \in TargetLists : GetSignalToSnapshot(e, t)
    \/ Execute
    \/ Push
    \/ NextSignal

Spec == Init /\ [][Next]_vars

\* A host that subscribes, queues snapshots, and pumps the queue in a loop
\* that does not end.
NextDrain ==
    \/ \E o \in Observers : SubscribeObserver(o)
    \/ \E e \in Events : SendSignal(e)
    \/ \E e \in Events : GetSignalSnapshot(e)
    \/ Execute
    \/ Push
    \/ NextSignal

SpecDrain == Init /\ [][NextDrain]_vars /\ WF_vars(NextSignal)

----------------------------------------------------------------------------
(* The host also using the snapshot as a subject (implement_signal_subject! *)
(* is applied to SignalSnapShot), executing a snapshot again, and wiring a  *)
(* second subject to the same observers.                                    *)

\* other.borrow_mut().subscribe_observer(o)
SubscribeOther(o) ==
    /\ other' = subscribe_observer(other, o)
    /\ log' = <<>>
    /\ ret' = None
    /\ last' = Op("other_subscribe_observer", o, 0, <<>>)
    /\ prev' = subs
    /\ UNCHANGED <<subs, signal_queue, held, pushCount, ords, executed>>
    /\ UNCHANGED <<stack, busy, readers, qbusy, failed>>

\* variant: the snapshot passes the subscription on to the subject it came from
SnapSubscribeForwarding(o) ==
    /\ held # None
    /\ held' = [held EXCEPT !.subs = subscribe_observer(@, o)]
    /\ subs' = subscribe_observer(subs, o)
    /\ log' = <<>>
    /\ ret' = None
    /\ last' = Op("snapshot_subscribe_observer", o, 0, <<>>)
    /\ prev' = subs
    /\ UNCHANGED <<signal_queue, pushCount, ords, executed, extra>>

\* held.subscribe_observer(o)
SnapSubscribe(o) ==
    /\ held # None
    /\ held' = [held EXCEPT !.subs = subscribe_observer(@, o)]
    /\ log' = <<>>
    /\ ret' = None
    /\ last' = Op("snapshot_subscribe_observer", o, 0, <<>>)
    /\ prev' = subs
    /\ UNCHANGED <<subs, signal_queue, pushCount, ords, executed, extra>>

\* The last operation executed the snapshot the host holds.
JustExecuted ==
    \/ last.op \in {"execute", "execute_again"}
    \/ last.op = "next_signal" /\ ret # None

\* held.execute() straight after an operation that executed held
ExecuteAgain ==
    /\ held # None
    /\ JustExecuted
    /\ log' = execute(held, <<>>)
    /\ ret' = None
    /\ last' = Op("execute_again", 0, 0, <<>>)
    /\ prev' = subs
    /\ UNCHANGED <<subs, signal_queue, held, pushCount, ords, executed, extra>>

NextOwn ==
    \/ \E o \in Observers : SubscribeObserver(o)
    \/ \E o \in 1..NumShared : SubscribeOther(o)
    \/ \E e \in Events : GetSignalSnapshot(e)
    \/ \E e \in Events, t \in SeqsUpTo(Observers, MaxOwnTargets) : GetSignalToSnapshot(e, t)
    \/ \E o \in Observers : SnapSubscribe(o)
    \/ Execute
    \/ ExecuteAgain
    \/ pushCount < MaxOwnPush /\ Push
    \/ NextSignal

SpecOwn == Init /\ [][NextOwn]_vars

----------------------------------------------------------------------------
(* Observers that call back.  SignalObserver::process_signal is a trait     *)
(* method: an implementation may call the subject and the queue from inside *)
(* it.  Calls are then nested, so a pass and a process_signal call are      *)
(* frames of `stack` and proceed step by step.  The subject is held as the  *)
(* tests hold it, in Rc<RefCell<Subject>>: send_signal and                  *)
(* get_signal_snapshot run under subject.borrow(), subscribe_observer       *)
(* under subject.borrow_mut().  Every observer is an Rc<RefCell<..>> and    *)
(* is called under o.borrow_mut().  A borrow that RefCell refuses panics.   *)

ObserverBorrowed == "observer already borrowed"

SubjectBorrowed == "subject already borrowed"

QueueBorrowed == "queue already borrowed"

EmptyUnwrapped == "unwrap on None"

\* A pass of send_signal over the subject's vector, or of execute over the
\* vector of snapshot snap, at entry i.  start is the vector as it was when
\* the pass began, ord the push ordinal of snap.
PassFrame(kind, e, start, snap, ord) ==
    [kind |-> kind, event |-> e, i |-> 1, start |-> start, snap |-> snap,
     ord |-> ord, observer |-> 0, n |-> 0]

\* A call of process_signal on observer o that has made n calls of its own.
CallFrame(o, e) ==
    [kind |-> "process_signal", event |-> e, i |-> 0, start |-> <<>>, snap |-> None,
     ord |-> 0, observer |-> o, n |-> 0]

Top == stack[Len(stack)]

Below == SubSeq(stack, 1, Len(stack) - 1)

\* The vector a pass iterates: the subject's field itself, or the snapshot's.
FrameList(f) ==
    IF f.kind = "send_signal" THEN get_observers_iter(subs)
    ELSE IF f.kind = "send_signal_to" THEN f.start
    ELSE get_observers_iter(f.snap.subs)

Idle == stack = <<>> /\ failed = ""

InPass == failed = "" /\ stack # <<>> /\ Top.kind # "process_signal"

InCall == failed = "" /\ stack # <<>> /\ Top.kind = "process_signal" /\ Top.n < MaxNested

\* The stack with one more call counted for the process_signal on top.
Counted == [stack EXCEPT ![Len(stack)].n = @ + 1]

\* subject.borrow().send_signal(e) by the host: the pass begins
HostSendSignal(e) ==
    /\ Idle
    /\ readers' = readers + 1
    /\ stack' = <<PassFrame("send_signal", e, subs, None, 0)>>
    /\ log' = <<>>
    /\ ret' = None
    /\ last' = Op("send_signal", 0, e, <<>>)
    /\ prev' = subs
    /\ UNCHANGED <<subs, signal_queue, held, pushCount, ords, executed, other, busy, qbusy, failed>>

\* subject.borrow().send_signal_to(e, t) by the host: the pass over t begins
HostSendSignalTo(e, t) ==
    /\ Idle
    /\ readers' = readers + 1
    /\ stack' = <<PassFrame("send_signal_to", e, t, None, 0)>>
    /\ log' = <<>>
    /\ ret' = None
    /\ last' = Op("send_signal_to", 0, e, t)
    /\ prev' = subs
    /\ UNCHANGED <<subs, signal_queue, held, pushCount, ords, executed, other, busy, qbusy, failed>>

\* variant: the queue's borrow lasts for as long as the popped snapshot executes
HostNextSignalHolding ==
    LET p == pop(signal_queue)
        n == pop(ords)
    IN
    /\ Idle
    /\ signal_queue' = p.rest
    /\ IF p.value # None
       THEN /\ stack' = <<PassFrame("execute", p.value.event, p.value.subs, p.value, n.value)>>
            /\ ords' = n.rest
            /\ executed' = Append(executed, n.value)
            /\ qbusy' = TRUE
       ELSE UNCHANGED <<stack, ords, executed, qbusy>>
    /\ log' = <<>>
    /\ ret' = None
    /\ last' = Op("next_signal", 0, 0, <<>>)
    /\ prev' = subs
    /\ UNCHANGED <<subs, held, pushCount, other, busy, readers, failed>>

\* variant: the popped Option is unwrapped
HostNextSignalUnwrap ==
    LET p == pop(signal_queue)
        n == pop(ords)
    IN
    /\ Idle
    /\ signal_queue' = p.rest
    /\ qbusy' = FALSE
    /\ IF p.value # None
       THEN /\ stack' = <<PassFrame("execute", p.value.event, p.value.subs, p.value, n.value)>>
            /\ ords' = n.rest
            /\ executed' = Append(executed, n.value)
            /\ UNCHANGED failed
       ELSE /\ failed' = EmptyUnwrapped
            /\ UNCHANGED <<stack, ords, executed>>
    /\ log' = <<>>
    /\ ret' = None
    /\ last' = Op("next_signal", 0, 0, <<>>)
    /\ prev' = subs
    /\ UNCHANGED <<subs, held, pushCount, other, busy, readers>>

\* queue.next_signal() by the host: pop, whose borrow of the queue ends as it
\* returns, and then the pass of execute begins
HostNextSignal ==
    LET p == pop(signal_queue)
        n == pop(ords)
    IN
    /\ Idle
    /\ signal_queue' = p.rest
    /\ qbusy' = FALSE
    /\ IF p.value # None
       THEN /\ stack' = <<PassFrame("execute", p.value.event, p.value.subs, p.value, n.value)>>
            /\ ords' = n.rest
            /\ executed' = Append(executed, n.value)
       ELSE UNCHANGED <<stack, ords, executed>>
    /\ log' = <<>>
    /\ ret' = None
    /\ last' = Op("next_signal", 0, 0, <<>>)
    /\ prev' = subs
    /\ UNCHANGED <<subs, held, pushCount, other, busy, readers, failed>>

\* variant: the observer is called without its RefCell being asked
DeliverUnchecked ==
    LET f == Top
        o == FrameList(f)[f.i]
    IN
    /\ InPass
    /\ f.i <= Len(FrameList(f))
    /\ busy' = busy \cup {o}
    /\ stack' = Append(stack, CallFrame(o, f.event))
    /\ log' = process_signal(log, o, f.event)
    /\ UNCHANGED failed
    /\ UNCHANGED <<subs, signal_queue, held, ret, last, prev, pushCount, ords, executed,
                   other, readers, qbusy>>

\* variant: the mutable borrow is given back before process_signal runs
DeliverNoHold ==
    LET f == Top
        o == FrameList(f)[f.i]
    IN
    /\ InPass
    /\ f.i <= Len(FrameList(f))
    /\ IF o \in busy
       THEN /\ failed' = ObserverBorrowed
            /\ UNCHANGED <<stack, busy, log>>
       ELSE /\ stack' = Append(stack, CallFrame(o, f.event))
            /\ log' = process_signal(log, o, f.event)
            /\ UNCHANGED <<failed, busy>>
    /\ UNCHANGED <<subs, signal_queue, held, ret, last, prev, pushCount, ords, executed,
                   other, readers, qbusy>>

\* o.borrow_mut().process_signal(event.clone()) for the next entry of the pass
Deliver ==
    LET f == Top
        o == FrameList(f)[f.i]
    IN
    /\ InPass
    /\ f.i <= Len(FrameList(f))
    /\ IF o \in busy
       THEN /\ failed' = ObserverBorrowed
            /\ UNCHANGED <<stack, busy, log>>
       ELSE /\ busy' = busy \cup {o}
            /\ stack' = Append(stack, CallFrame(o, f.event))
            /\ log' = process_signal(log, o, f.event)
            /\ UNCHANGED failed
    /\ UNCHANGED <<subs, signal_queue, held, ret, last, prev, pushCount, ords, executed,
                   other, readers, qbusy>>

\* process_signal returns: the borrow ends and the pass moves to its next entry
Return ==
    /\ failed = ""
    /\ stack # <<>>
    /\ Top.kind = "process_signal"
    /\ busy' = busy \ {Top.observer}
    /\ stack' = [Below EXCEPT ![Len(Below)].i = @ + 1]
    /\ UNCHANGED <<subs, signal_queue, held, ret, log, last, prev, pushCount, ords, executed,
                   other, readers, qbusy, failed>>

\* the for loop is over: send_signal returns and the subject's borrow ends, or
\* execute returns and next_signal returns Some(s), to the host or to an observer
PassDone ==
    /\ InPass
    /\ Top.i > Len(FrameList(Top))
    /\ stack' = Below
    /\ readers' = IF Top.kind = "execute" THEN readers ELSE readers - 1
    /\ IF Top.kind = "execute" /\ Below = <<>>
       THEN ret' = Top.snap /\ held' = Top.snap
       ELSE UNCHANGED <<ret, held>>
    /\ UNCHANGED <<subs, signal_queue, log, last, prev, pushCount, ords, executed,
                   other, busy, qbusy, failed>>

\* inside process_signal: subject.borrow().send_signal(e)
NestedSendSignal(e) ==
    /\ InCall
    /\ readers' = readers + 1
    /\ stack' = Append(Counted, PassFrame("send_signal", e, subs, None, 0))
    /\ last' = Op("nested_send_signal", Top.observer, e, <<>>)
    /\ UNCHANGED <<subs, signal_queue, held, ret, log, prev, pushCount, ords, executed,
                   other, busy, qbusy, failed>>

\* variant: the subject's RefCell is not asked
NestedSubscribeUnchecked(o) ==
    /\ InCall
    /\ subs' = subscribe_observer(subs, o)
    /\ stack' = Counted
    /\ last' = Op("nested_subscribe_observer", o, 0, <<>>)
    /\ prev' = subs
    /\ UNCHANGED <<signal_queue, held, ret, log, pushCount, ords, executed,
                   other, busy, readers, qbusy, failed>>

\* inside process_signal: subject.borrow_mut().subscribe_observer(o)
NestedSubscribe(o) ==
    /\ InCall
    /\ IF readers > 0
       THEN /\ failed' = SubjectBorrowed
            /\ UNCHANGED <<subs, stack>>
       ELSE /\ subs' = subscribe_observer(subs, o)
            /\ stack' = Counted
            /\ UNCHANGED failed
    /\ last' = Op("nested_subscribe_observer", o, 0, <<>>)
    /\ prev' = subs
    /\ UNCHANGED <<signal_queue, held, ret, log, pushCount, ords, executed,
                   other, busy, readers, qbusy>>

\* inside process_signal: queue.push(subject.borrow().get_signal_snapshot(e))
NestedPush(e) ==
    /\ InCall
    /\ Len(signal_queue) < MaxQueue
    /\ pushCount < MaxPush
    /\ IF qbusy
       THEN /\ failed' = QueueBorrowed
            /\ UNCHANGED <<pushCount, signal_queue, ords, stack>>
       ELSE /\ pushCount' = pushCount + 1
            /\ signal_queue' = push(signal_queue, Tracked(get_signal_snapshot(subs, e), subs))
            /\ ords' = push(ords, pushCount + 1)
            /\ stack' = Counted
            /\ UNCHANGED failed
    /\ last' = Op("nested_push", Top.observer, e, <<>>)
    /\ UNCHANGED <<subs, held, ret, log, prev, executed, other, busy, readers, qbusy>>

\* inside process_signal: queue.next_signal()
NestedNextSignal ==
    LET p == pop(signal_queue)
        n == pop(ords)
    IN
    /\ InCall
    /\ IF qbusy
       THEN /\ failed' = QueueBorrowed
            /\ UNCHANGED <<signal_queue, stack, ords, executed>>
       ELSE /\ signal_queue' = p.rest
            /\ UNCHANGED failed
            /\ IF p.value # None
               THEN /\ stack' = Append(Counted,
                                  PassFrame("execute", p.value.event, p.value.subs, p.value, n.value))
                    /\ ords' = n.rest
                    /\ executed' = Append(executed, n.value)
               ELSE /\ stack' = Counted
                    /\ UNCHANGED <<ords, executed>>
    /\ last' = Op("nested_next_signal", Top.observer, 0, <<>>)
    /\ UNCHANGED <<subs, held, ret, log, prev, pushCount, other, busy, readers, qbusy>>

NextRe ==
    \/ \E o \in Observers : Idle /\ SubscribeObserver(o)
    \/ \E e \in Events : Idle /\ GetSignalSnapshot(e)
    \/ Idle /\ Push
    \/ \E e \in Events : HostSendSignal(e)
    \/ \E e \in Events, t \in SeqsUpTo(Observers, MaxOwnTargets) : HostSendSignalTo(e, t)
    \/ HostNextSignal
    \/ Deliver
    \/ Return
    \/ PassDone
    \/ \E e \in Events : NestedSendSignal(e)
    \/ \E o \in Observers : NestedSubscribe(o)
    \/ \E e \in Events : NestedPush(e)
    \/ NestedNextSignal

SpecRe == Init /\ [][NextRe]_vars

----------------------------------------------------------------------------
(* Properties.                                                             *)

\* The deliveries of one pass over list with event e.
Deliveries(list, e) == [i \in 1..Len(list) |-> [observer |-> list[i], event |-> e]]

\* How often observer o is called in a log, and how often it is listed.
Calls(o, out) == Cardinality({i \in DOMAIN out : out[i].observer = o})

Listings(o, list) == Cardinality({i \in DOMAIN list : list[i] = o})

Creates == {"get_signal_snapshot", "get_signal_to_snapshot"}

Dispatches == {"send_signal", "send_signal_to", "execute", "next_signal"}

\* C1: snapshot isolation. Subscribing on the subject never changes a
\* snapshot that was already built: every snapshot the host holds or the
\* queue holds still has the list it was built from, and executing one,
\* directly or through next_signal, delivers its event to exactly that list,
\* in that order.
SnapshotIsolation ==
    /\ held # None => held.subs = held.cap
    /\ \A i \in DOMAIN signal_queue : signal_queue[i].subs = signal_queue[i].cap
    /\ last.op = "execute" => log = Deliveries(held.cap, held.event)
    /\ (last.op = "next_signal" /\ ret # None) => log = Deliveries(ret.cap, ret.event)

\* next_signal has executed a snapshot built before the subject gained an
\* observer; that observer got nothing.
SnapshotIsolationWitness ==
    /\ last.op = "next_signal"
    /\ ret # None
    /\ ret.cap # <<>>
    /\ \E o \in Elems(subs) : o \notin Elems(ret.cap) /\ Calls(o, log) = 0

\* C2: the queue is FIFO. The snapshots next_signal has executed are the
\* first pushes, in push order, and the queued ones are the pushes after
\* them, in push order: no snapshot overtakes an earlier push.
QueueIsFifo ==
    /\ Len(ords) = Len(signal_queue)
    /\ executed \o ords = [i \in 1..pushCount |-> i]

\* Two snapshots were executed while a third, pushed later, waits.
QueueIsFifoWitness ==
    /\ Len(executed) >= 2
    /\ ords # <<>>
    /\ last.op = "next_signal"

\* C3: send_signal(e) calls process_signal(e) on the observers of the
\* subject's vector in vector order, once each, on no other observer, and
\* all of it before it returns.
SendSignalDelivers ==
    last.op = "send_signal" =>
        /\ log = Deliveries(prev, last.event)
        /\ \A o \in Observers :
               Calls(o, log) = IF o \in Elems(prev) THEN 1 ELSE 0

SendSignalWitness ==
    /\ last.op = "send_signal"
    /\ Len(prev) >= 2
    /\ Len(log) = Len(prev)

\* C4: the subject's vector never holds the same observer twice.
NoDuplicateObserver ==
    \A i, j \in DOMAIN subs : subs[i] = subs[j] => i = j

\* An observer that was present, and not last, has been subscribed again.
NoDuplicateWitness ==
    /\ last.op = "subscribe_observer"
    /\ last.observer \in Elems(prev)
    /\ Len(prev) >= 2
    /\ prev # subs

\* C5: subscribe_observer(obs) is move-to-end by identity. obs is the last
\* entry and occurs once; the entries before it are the previous ones other
\* than obs, in their previous order; the length grows by one if obs was
\* absent and stays if it was present; subscribing obs again changes nothing.
SubscribeMovesToEnd ==
    last.op = "subscribe_observer" =>
        LET o    == last.observer
            rest == SubSeq(subs, 1, Len(subs) - 1)
        IN
        /\ subs # <<>>
        /\ subs[Len(subs)] = o
        /\ Listings(o, subs) = 1
        /\ Elems(rest) = Elems(prev) \ {o}
        /\ \A i, j \in DOMAIN rest : i < j =>
               \E k, l \in DOMAIN prev : k < l /\ prev[k] = rest[i] /\ prev[l] = rest[j]
        /\ Len(subs) = IF o \in Elems(prev) THEN Len(prev) ELSE Len(prev) + 1
        /\ subscribe_observer(subs, o) = subs

\* An observer at the front of a full vector has been subscribed again.
SubscribeMovesToEndWitness ==
    /\ last.op = "subscribe_observer"
    /\ Len(prev) >= 2
    /\ prev[1] = last.observer
    /\ Len(subs) = Len(prev)

\* C6: send_signal_to(e, targets) delivers e to the subject's vector in
\* order, then to targets in order, without de-duplication: an observer gets
\* e once if it is subscribed plus once per listing in targets.
SendSignalToDelivers ==
    last.op = "send_signal_to" =>
        /\ log = Deliveries(prev \o last.targets, last.event)
        /\ \A o \in Observers :
               Calls(o, log) = (IF o \in Elems(prev) THEN 1 ELSE 0) + Listings(o, last.targets)

\* A subscribed observer listed twice in targets got the event three times.
SendSignalToWitness ==
    /\ last.op = "send_signal_to"
    /\ Len(prev) >= 2
    /\ \E o \in Elems(prev) : Listings(o, last.targets) = 2 /\ Calls(o, log) = 3

\* C7: next_signal on a non-empty queue removes the head, executes it once
\* (one delivery per entry of its list, in order), returns it, and leaves the
\* snapshots behind it queued in their order.
NextSignalTakesHead ==
    [][(last'.op = "next_signal" /\ signal_queue # <<>>) =>
          /\ ret' = Head(signal_queue)
          /\ signal_queue' = Tail(signal_queue)
          /\ log' = Deliveries(Head(signal_queue).subs, Head(signal_queue).event)]_vars

\* next_signal has returned a snapshot with two entries and left one queued.
NextSignalTakesHeadWitness ==
    /\ last.op = "next_signal"
    /\ ret # None
    /\ Len(ret.subs) >= 2
    /\ Len(log) = Len(ret.subs)
    /\ signal_queue # <<>>

\* C8: next_signal on an empty queue is allowed, returns None, calls no
\* observer and changes neither the queue, the subject nor a snapshot,
\* however often it is repeated.
NextSignalOnEmpty ==
    [][/\ signal_queue = <<>> => ENABLED NextSignal
       /\ (last'.op = "next_signal" /\ signal_queue = <<>>) =>
              /\ ret' = None
              /\ log' = <<>>
              /\ UNCHANGED <<subs, signal_queue, held>>]_vars

\* next_signal has found the queue empty, the host holding a snapshot and
\* the subject holding observers.
NextSignalOnEmptyWitness ==
    /\ last.op = "next_signal"
    /\ ret = None
    /\ signal_queue = <<>>
    /\ held # None
    /\ subs # <<>>

\* C9: deferred and immediate dispatch agree. get_signal_to_snapshot(e,
\* targets) returns the subject's vector followed by targets, duplicates kept,
\* and executing it straight away makes the deliveries send_signal_to(e,
\* targets) makes; get_signal_snapshot(e) then execute makes those of
\* send_signal(e).
DeferredMatchesImmediate ==
    [][/\ last'.op = "get_signal_to_snapshot" =>
              /\ ret'.subs = subs \o last'.targets
              /\ ret'.event = last'.event
       /\ last'.op = "get_signal_snapshot" =>
              /\ ret'.subs = subs
              /\ ret'.event = last'.event
       /\ (last.op = "get_signal_to_snapshot" /\ last'.op = "execute") =>
              log' = send_signal_to(subs, last.event, last.targets, <<>>)
       /\ (last.op = "get_signal_snapshot" /\ last'.op = "execute") =>
              log' = send_signal(subs, last.event, <<>>)]_vars

\* A snapshot built from the present vector and a target that is subscribed
\* has been executed: that observer got the event twice.
DeferredMatchesImmediateWitness ==
    /\ last.op = "execute"
    /\ subs # <<>>
    /\ Len(held.cap) > Len(subs)
    /\ SubSeq(held.cap, 1, Len(subs)) = subs
    /\ \E o \in Elems(subs) : Calls(o, log) = 2

\* C10: building a snapshot and pushing one dispatch nothing and leave the
\* subject's vector as it was; process_signal is called only by send_signal,
\* send_signal_to, execute and next_signal, and what next_signal delivers is
\* the event of the snapshot it removed and returned.
CreateAndPushAreSilent ==
    /\ last.op \in Creates \cup {"push"} => (log = <<>> /\ subs = prev)
    /\ log # <<>> => last.op \in Dispatches
    /\ (last.op = "next_signal" /\ log # <<>>) =>
           (ret # None /\ \A i \in DOMAIN log : log[i].event = ret.event)

\* A second snapshot with observers in it has been pushed, and nothing was
\* delivered.
CreateAndPushWitness ==
    /\ last.op = "push"
    /\ Len(signal_queue) = 2
    /\ \A i \in DOMAIN signal_queue : signal_queue[i].subs # <<>>
    /\ subs # <<>>
    /\ log = <<>>

\* C15: the queue is empty or non-empty. push leaves it non-empty;
\* next_signal called with one snapshot queued leaves it empty, with more
\* than one leaves it non-empty; and no state is terminal: next_signal can be
\* called in every state, and push can be called whenever the host has a
\* snapshot to push and a push left.
QueueStateMachine ==
    /\ [](ENABLED NextSignal)
    /\ []((held # None /\ Len(signal_queue) < MaxQueue /\ pushCount < MaxPush) => ENABLED Push)
    /\ [][/\ last'.op = "push" => ~is_empty(signal_queue')
          /\ (last'.op = "next_signal" /\ Len(signal_queue) = 1) => is_empty(signal_queue')
          /\ (last'.op = "next_signal" /\ Len(signal_queue) > 1) => ~is_empty(signal_queue')
          /\ (last'.op = "next_signal" /\ is_empty(signal_queue)) => is_empty(signal_queue')]_vars

\* The queue went from empty to two snapshots and back to empty.
QueueStateMachineWitness ==
    /\ last.op = "next_signal"
    /\ ret # None
    /\ is_empty(signal_queue)
    /\ executed = <<1, 2>>
    /\ pushCount = 2

Executes == {"execute", "execute_again"}

\* rest is what is left of list when some entries are struck out.
IsSubsequence(rest, list) ==
    \E f \in [DOMAIN rest -> DOMAIN list] :
        /\ \A i, j \in DOMAIN rest : i < j => f[i] < f[j]
        /\ \A i \in DOMAIN rest : list[f[i]] = rest[i]

\* C13: a snapshot can be executed any number of times. execute leaves the
\* snapshot's event and list as they are and delivers the event to the
\* snapshot's present list, in order, once per entry; executing again
\* repeats the deliveries of the execution before; and next_signal hands the
\* host the snapshot it executed, unchanged.
ExecuteRepeats ==
    [][/\ last'.op \in Executes =>
              /\ held' = held
              /\ log' = Deliveries(held.subs, held.event)
       /\ last'.op = "execute_again" => log' = log
       /\ (last'.op = "next_signal" /\ signal_queue # <<>>) =>
              held' = Head(signal_queue)]_vars

\* A snapshot the host had subscribed an observer on has been executed a
\* second time, with two deliveries or more.
ExecuteRepeatsWitness ==
    /\ last.op = "execute_again"
    /\ held.subs # held.cap
    /\ Len(log) >= 2
    /\ log = Deliveries(held.subs, held.event)

\* C14: subscribe_observer(obs) on a snapshot, whatever its list: obs is then
\* the last entry and occurs once, every other observer is listed as often
\* as before and in the same relative order, the event is the same, and an
\* execute delivers to exactly that list, so to obs once and last.
SnapshotSubscribe ==
    [][/\ last'.op = "snapshot_subscribe_observer" =>
              LET o    == last'.observer
                  old  == held.subs
                  new  == held'.subs
                  rest == SubSeq(new, 1, Len(new) - 1)
              IN
              /\ new # <<>>
              /\ new[Len(new)] = o
              /\ Listings(o, new) = 1
              /\ \A x \in Observers \ {o} : Listings(x, new) = Listings(x, old)
              /\ IsSubsequence(rest, old)
              /\ held'.event = held.event
       /\ last'.op \in Executes =>
              /\ log' = Deliveries(held.subs, held.event)
              /\ \A x \in Observers : Calls(x, log') = Listings(x, held.subs)]_vars

\* A snapshot built with a target that was subscribed, so listing it twice,
\* was subscribed on with that observer and executed: it got the event once,
\* last.
SnapshotSubscribeWitness ==
    /\ last.op = "execute"
    /\ Len(held.subs) >= 2
    /\ Listings(held.subs[Len(held.subs)], held.cap) = 2
    /\ Calls(held.subs[Len(held.subs)], log) = 1
    /\ log[Len(log)].observer = held.subs[Len(held.subs)]

\* C20: observer lists are owned one by one. Subscribing on a snapshot
\* changes neither the subject it came from, nor the other subject, nor a
\* queued snapshot; subscribing on a subject changes neither the other
\* subject nor any snapshot.
ListsAreOwned ==
    [][/\ last'.op = "snapshot_subscribe_observer" =>
              UNCHANGED <<subs, other, signal_queue>>
       /\ last'.op = "subscribe_observer" =>
              UNCHANGED <<other, held, signal_queue>>
       /\ last'.op = "other_subscribe_observer" =>
              UNCHANGED <<subs, held, signal_queue>>]_vars

\* The host has subscribed on a snapshot an observer that both subjects
\* hold, while a snapshot built from the same list is queued.
ListsAreOwnedWitness ==
    /\ last.op = "snapshot_subscribe_observer"
    /\ held.subs # held.cap
    /\ signal_queue # <<>>
    /\ signal_queue[1].cap = held.cap
    /\ signal_queue[1].subs = held.cap
    /\ last.observer \in Elems(subs)
    /\ last.observer \in Elems(other)
    /\ Len(subs) >= 2

----------------------------------------------------------------------------
(* Observers that call back: properties of SpecRe.                          *)

\* The process_signal calls in progress on observer o.
CallsOn(o) ==
    Cardinality({k \in 1..Len(stack) : stack[k].kind = "process_signal" /\ stack[k].observer = o})

\* The nesting depth: the process_signal calls in progress.
Depth == Cardinality({k \in 1..Len(stack) : stack[k].kind = "process_signal"})

\* The pass on top of the stack has an entry left, and it is this observer.
Reached == FrameList(Top)[Top.i]

AtEntry == InPass /\ Top.i <= Len(FrameList(Top))

\* C11: in every reachable state, nested dispatch included, at most one call
\* of process_signal is in progress on any observer, and it is in progress
\* exactly while the observer's RefCell is mutably borrowed; a pass that
\* reaches an observer already inside process_signal starts no second call.
OneLiveCallPerObserver ==
    \A o \in Observers :
        /\ CallsOn(o) <= 1
        /\ o \in busy <=> CallsOn(o) = 1

OneLiveCallPerObserverWitness ==
    /\ failed = ObserverBorrowed
    /\ Top.kind = "execute"
    /\ Depth = 2
    /\ CallsOn(Reached) = 1

\* A step in which process_signal calls subscribe_observer(o) on the subject
\* while a pass of send_signal or send_signal_to on that subject is in progress.
SubscribeInPass(o) ==
    /\ InCall
    /\ readers > 0
    /\ last'.op = "nested_subscribe_observer"
    /\ last'.observer = o
    /\ failed' # "" \/ stack' = Counted

OnlyReentrancyFails ==
    /\ failed \in {"", ObserverBorrowed, SubjectBorrowed}
    /\ failed # "" => Depth >= 1
    /\ failed = ObserverBorrowed =>
          /\ Top.kind # "process_signal"
          /\ Top.i <= Len(FrameList(Top))
          /\ CallsOn(Reached) = 1
    /\ failed = SubjectBorrowed =>
          /\ Top.kind = "process_signal"
          /\ readers > 0
          /\ last.op = "nested_subscribe_observer"

OnlyReentrancyFailsWitness ==
    /\ failed = ObserverBorrowed
    /\ Depth = 1
    /\ stack[1].kind = "execute"
    /\ Top.kind = "send_signal"
    /\ Len(executed) = 2
    /\ held # None

\* The pass on top was started from inside process_signal by send_signal on
\* the subject, and its next entry is the observer that started it.
RetriggerReachesItself ==
    /\ AtEntry
    /\ Len(stack) > 1
    /\ Top.kind = "send_signal"
    /\ Reached = stack[Len(stack) - 1].observer

\* C17 as stated: when the re-triggered send_signal reaches the observer that
\* re-triggered it, one more nested process_signal begins.
RetriggerNests ==
    [][(RetriggerReachesItself /\ vars' # vars) => Depth' = Depth + 1]_vars

\* C17, amended: the depth of nested process_signal calls never exceeds the
\* number of observers; the send_signal an observer re-triggers on its
\* subject fails on borrow_mut when it reaches that observer, with no
\* further call.
DepthIsBounded ==
    /\ [](Depth <= NumObservers)
    /\ [][(RetriggerReachesItself /\ vars' # vars) =>
             failed' = ObserverBorrowed /\ Depth' = Depth]_vars

DepthIsBoundedWitness ==
    /\ failed = ObserverBorrowed
    /\ Depth = NumObservers
    /\ \A k \in 1..Len(stack) : stack[k].kind \in {"send_signal", "process_signal"}
    /\ Reached = stack[Len(stack) - 1].observer

\* The passes of execute in progress.
Pumping == {k \in 1..Len(stack) : stack[k].kind = "execute"}

\* C19: while next_signal executes a snapshot, the snapshot is out of the
\* queue and the queue is not borrowed; a push from inside process_signal
\* succeeds, puts its snapshot behind those queued and has it executed by no
\* call in progress; next_signal returns after its one snapshot; a nested
\* next_signal executes the head of the queue, never a snapshot in execution.
ReentrantQueueAccess ==
    /\ [](Pumping # {} =>
             /\ ~qbusy
             /\ failed # QueueBorrowed
             /\ \A k \in Pumping : stack[k].ord \notin Elems(ords)
             /\ \A k, m \in Pumping : stack[k].ord = stack[m].ord => k = m)
    /\ [][/\ (Pumping # {} /\ last'.op = "nested_push" /\ stack' = Counted) =>
                /\ failed' = ""
                /\ Len(signal_queue') = Len(signal_queue) + 1
                /\ SubSeq(signal_queue', 1, Len(signal_queue)) = signal_queue
                /\ ords' = Append(ords, pushCount')
                /\ executed' = executed
                /\ \A k \in Pumping : stack'[k].ord # pushCount'
          /\ (InPass /\ Top.kind = "execute" /\ stack' = Below) =>
                /\ signal_queue' = signal_queue
                /\ ords' = ords
                /\ executed' = executed
          /\ (InCall /\ executed' # executed) =>
                /\ executed' = Append(executed, Head(ords))
                /\ Top'.snap = Head(signal_queue)
                /\ \A k \in Pumping : stack[k].ord # Top'.ord]_vars

ReentrantQueueAccessWitness ==
    /\ failed = ""
    /\ Len(stack) = 3
    /\ stack[1].kind = "execute"
    /\ Top.kind = "execute"
    /\ last.op = "nested_next_signal"
    /\ pushCount = 3
    /\ ords = <<3>>
    /\ executed = <<1, 2>>

----------------------------------------------------------------------------
(* The drain loop: a property of SpecDrain.                                 *)

\* The queue is empty and every snapshot pushed so far was executed once.
Drained ==
    /\ is_empty(signal_queue)
    /\ Len(executed) = pushCount
    /\ Elems(executed) = 1..pushCount

\* C18: with a host that keeps calling next_signal, if the pushes stop after
\* the n-th, the queue becomes and stays empty with each of the n snapshots
\* executed exactly once; no snapshot is executed twice, and a queued
\* snapshot is executed by a call of next_signal only.
DrainProgress ==
    /\ \A n \in 0..MaxPush : <>[](pushCount = n) => <>[](Drained /\ pushCount = n)
    /\ [](\A i, j \in 1..Len(executed) : executed[i] = executed[j] => i = j)
    /\ [][executed' # executed => last'.op = "next_signal"]_vars

DrainProgressWitness ==
    /\ Drained
    /\ pushCount = MaxPush
    /\ last.op = "next_signal"
    /\ ret # None

====
